---- MODULE Spec2Model ----
(***************************************************************************)
(* A model of the virtual PLIC device VPlicGlobal (src/src/lib.rs): the    *)
(* MMIO read and write handlers, the pending/active bitmaps behind their   *)
(* spin locks, the guest interrupt-pending bit (hvip.VSEIP) and the        *)
(* accesses forwarded to the host PLIC.                                    *)
(*                                                                         *)
(* A usize value written by the guest is modelled as the set of its set    *)
(* bit positions (a subset of 0..63), so that `val as u32` is a real       *)
(* truncation.  Register offsets and source ids are plain integers.        *)
(***************************************************************************)
EXTENDS Integers, FiniteSets, Sequences, TLC

(* ------------------------------------------------------------------ *)
(* consts.rs                                                          *)
(* ------------------------------------------------------------------ *)
PLIC_NUM_SOURCES == 1024
PLIC_PRIORITY_OFFSET == 0
PLIC_PENDING_OFFSET == 4096
PLIC_ENABLE_OFFSET == 8192
PLIC_ENABLE_STRIDE == 128
PLIC_CONTEXT_CTRL_OFFSET == 2097152
PLIC_CONTEXT_STRIDE == 4096
PLIC_CONTEXT_THRESHOLD_OFFSET == 0
PLIC_CONTEXT_CLAIM_COMPLETE_OFFSET == 4

(* AccessWidth, named by its size in bytes. *)
Byte == 1
Word == 2
Dword == 4
Qword == 8
AccessWidth == {Byte, Word, Dword, Qword}

(* ------------------------------------------------------------------ *)
(* Bounds of the model                                                *)
(* ------------------------------------------------------------------ *)
(* Bits 0..MaxBit of the first pending word are written. *)
MaxBit == 2
(* The device is constructed with ContextsNum contexts. *)
ContextsNum == 2
(* Callers (virtual CPUs) that may be inside a handler at the same time. *)
NumProcs == 2

(* ------------------------------------------------------------------ *)
(* usize values as bit sets                                           *)
(* ------------------------------------------------------------------ *)
RECURSIVE Pow2(_)
Pow2(n) == IF n = 0 THEN 1 ELSE 2 * Pow2(n - 1)

(* The bit set of a natural below 2^11. *)
BitsOf(n) == {i \in 0..10 : (n \div Pow2(i)) % 2 = 1}

(* The natural a bit set within 0..10 stands for. *)
RECURSIVE NatOf(_)
NatOf(bits) ==
    IF bits = {} THEN 0
    ELSE LET i == CHOOSE j \in bits : TRUE IN Pow2(i) + NatOf(bits \ {i})

(* `val as u32`: the low 32 bits of a usize. *)
AsU32(val) == val \cap (0..31)

(* ------------------------------------------------------------------ *)
(* Bitmap<PLIC_NUM_SOURCES>, as the set of its set indices            *)
(* ------------------------------------------------------------------ *)
BitmapNew == {}

(* Bitmap::get / Bitmap::set panic on an index outside the bitmap. *)
IndexInBitmap(index) == index < PLIC_NUM_SOURCES

BitmapSet(bm, index, value) == IF value THEN bm \cup {index} ELSE bm \ {index}

BitmapIsEmpty(bm) == bm = {}

SetMin(S) == CHOOSE x \in S : \A y \in S : x <= y

(* Bitmap::first_index: None is <<>>, Some(id) is <<id>>. *)
first_index(bm) == IF bm = {} THEN <<>> ELSE <<SetMin(bm)>>

(* ------------------------------------------------------------------ *)
(* State                                                              *)
(* ------------------------------------------------------------------ *)
VARIABLES
    dev,            \* the immutable fields: addr, size, contexts_num, host_plic_addr
    assigned_irqs,  \* Mutex<Bitmap>: assigned source ids
    pending_irqs,   \* Mutex<Bitmap>: pending source ids
    active_irqs,    \* Mutex<Bitmap>: active source ids
    vseip,          \* hvip.VSEIP, the guest's interrupt-pending signal
    last,           \* the device state the latest call was made in (calls one at a time)
    pending_lock,   \* the caller holding the lock of pending_irqs, 0 when free
    active_lock,    \* the caller holding the lock of active_irqs, 0 when free
    pc,             \* per caller: where in a handler it stands
    frame,          \* per caller: the call it serves and its locals
    script,         \* per caller: the calls it has still to make
    rets            \* per caller: what its calls returned, in order

device == <<dev, assigned_irqs, pending_irqs, active_irqs, vseip>>
callers == <<pending_lock, active_lock, pc, frame, script, rets>>
vars == <<device, last, callers>>

Procs == 1..NumProcs

(* ------------------------------------------------------------------ *)
(* VPlicGlobal::new                                                   *)
(* ------------------------------------------------------------------ *)
GuestBase == 201326592      \* 0x0c00_0000, the usual PLIC base
RegionSize == 4194304       \* 0x40_0000

AddrEnd(addr, contexts_num) ==
    addr + contexts_num * PLIC_CONTEXT_STRIDE
         + PLIC_CONTEXT_CTRL_OFFSET
         + PLIC_CONTEXT_CLAIM_COMPLETE_OFFSET

(* The assertion of new: the region must reach past addr_end. *)
NewAccepts(addr, size, contexts_num) ==
    addr + size > AddrEnd(addr, contexts_num)

New(addr, size, contexts_num) ==
    [addr |-> addr, size |-> size, contexts_num |-> contexts_num,
     host_plic_addr |-> addr]

(* ------------------------------------------------------------------ *)
(* Host PLIC accesses                                                 *)
(* ------------------------------------------------------------------ *)
(* `val as u8 / u16 / u32 / u64`: the low 8 * width bits of a usize. *)
AsWidth(val, width) == val \cap (0..(8 * width - 1))

(* The pointer of a host access is a multiple of the access width. *)
HostAligned(host_addr, width) == host_addr % width = 0

(* perform_mmio_read when the host register holds hv, and perform_mmio_write.  *)
(* A volatile access through a misaligned pointer is undefined behaviour: a    *)
(* build with debug checks (oc) aborts the process before the access, a build  *)
(* without them makes the access.  res is "ok" or "Misaligned", ret the value  *)
(* returned, hw the host accesses made.                                        *)
HostRead(host_addr, width, hv, oc) ==
    IF oc /\ ~HostAligned(host_addr, width)
    THEN [res |-> "Misaligned", ret |-> {}, hw |-> <<>>]
    ELSE [res |-> "ok", ret |-> AsWidth(hv, width),
          hw |-> <<[kind |-> "read", addr |-> host_addr, width |-> width]>>]

HostWrite(host_addr, width, val, oc) ==
    IF oc /\ ~HostAligned(host_addr, width)
    THEN [res |-> "Misaligned", ret |-> {}, hw |-> <<>>]
    ELSE [res |-> "ok", ret |-> {},
          hw |-> <<[kind |-> "write", addr |-> host_addr, width |-> width,
                    val |-> AsWidth(val, width)]>>]

(* The guard of the threshold arm. *)
IsThreshold(offset) ==
    /\ offset >= PLIC_CONTEXT_CTRL_OFFSET
    /\ (offset - PLIC_CONTEXT_CTRL_OFFSET) % PLIC_CONTEXT_STRIDE = 0

(* The guard of the claim/complete arm.  For an offset in 0x200001..0x200003   *)
(* the usize subtraction underflows: with overflow checks the call panics,     *)
(* without them it wraps modulo 2^64, a multiple of the stride, so that the    *)
(* remainder is that of the mathematical difference.                           *)
ClaimCompleteGuard(offset, overflow_checks) ==
    IF offset < PLIC_CONTEXT_CTRL_OFFSET THEN "no"
    ELSE LET d == offset - PLIC_CONTEXT_CTRL_OFFSET - PLIC_CONTEXT_CLAIM_COMPLETE_OFFSET IN
         IF d < 0 /\ overflow_checks THEN "overflow"
         ELSE IF d % PLIC_CONTEXT_STRIDE = 0 THEN "yes" ELSE "no"

ContextOf(offset) ==
    (offset - PLIC_CONTEXT_CTRL_OFFSET - PLIC_CONTEXT_CLAIM_COMPLETE_OFFSET)
        \div PLIC_CONTEXT_STRIDE

(* An off-by-one context check. *)
ContextValid_OffByOne(d, context_id) == context_id <= d.contexts_num

(* assert!(context_id < self.contexts_num) *)
ContextValid(d, context_id) == context_id < d.contexts_num

(* ------------------------------------------------------------------ *)
(* handle_read                                                        *)
(* ------------------------------------------------------------------ *)
(* assert_eq!(width, AccessWidth::Dword) *)
ReadWidthOk(width) == width = Dword

(* The arm of the match that serves a read of reg, or the panic that ends the  *)
(* call before any arm's body runs.  oc: whether the build has debug checks    *)
(* (arithmetic overflow, pointer alignment).                                    *)
ReadArm(d, reg, width, oc) ==
    IF ~ReadWidthOk(width) THEN "InvalidWidth"
    ELSE IF reg >= PLIC_PRIORITY_OFFSET /\ reg < PLIC_PENDING_OFFSET THEN "priority"
    ELSE IF reg >= PLIC_PENDING_OFFSET /\ reg < PLIC_ENABLE_OFFSET THEN "pending"
    ELSE IF reg >= PLIC_ENABLE_OFFSET /\ reg < PLIC_CONTEXT_CTRL_OFFSET THEN "enable"
    ELSE IF IsThreshold(reg) THEN "threshold"
    ELSE IF ClaimCompleteGuard(reg, oc) = "overflow" THEN "Overflow"
    ELSE IF ClaimCompleteGuard(reg, oc) = "yes"
        THEN IF ContextValid(d, ContextOf(reg)) THEN "claim" ELSE "InvalidContext"
    ELSE "Unmapped"

(* The pending arm: reg_index is `reg - PLIC_PENDING_OFFSET / 4`.      *)
PendingReadIndex(reg) == reg - PLIC_PENDING_OFFSET \div 4

(* The word read bit by bit; <<>> when a get leaves the bitmap. *)
PendingReadWord(P, reg) ==
    LET bit_index_start == PendingReadIndex(reg) * 32 IN
    IF \E i \in 0..31 : ~IndexInBitmap(bit_index_start + i) THEN <<>>
    ELSE <<{i \in 0..31 : (bit_index_start + i) \in P}>>

(* The pending bitmap after the claim's removal of the id first_index gave. *)
ClaimClearPending(P, irq_id) == BitmapSet(P, irq_id, FALSE)

(* A claim that forgets to mark the id active. *)
ClaimSetActive_Skipped(A, irq_id) == A

(* The active bitmap after the claim's marking of that id. *)
ClaimSetActive(A, irq_id) == BitmapSet(A, irq_id, TRUE)

(* ------------------------------------------------------------------ *)
(* handle_write                                                       *)
(* ------------------------------------------------------------------ *)
(* A write handler without its width assertion. *)
WriteWidthOk_Any(width) == TRUE

(* assert_eq!(width, AccessWidth::Dword) *)
WriteWidthOk(width) == width = Dword

WriteArm(d, reg, width, oc) ==
    IF ~WriteWidthOk(width) THEN "InvalidWidth"
    ELSE IF reg >= PLIC_PRIORITY_OFFSET /\ reg < PLIC_PENDING_OFFSET THEN "priority"
    ELSE IF reg >= PLIC_PENDING_OFFSET /\ reg < PLIC_ENABLE_OFFSET THEN "pending"
    ELSE IF reg >= PLIC_ENABLE_OFFSET /\ reg < PLIC_CONTEXT_CTRL_OFFSET THEN "enable"
    ELSE IF IsThreshold(reg) THEN "threshold"
    ELSE IF ClaimCompleteGuard(reg, oc) = "overflow" THEN "Overflow"
    ELSE IF ClaimCompleteGuard(reg, oc) = "yes"
        THEN IF ContextValid(d, ContextOf(reg)) THEN "complete" ELSE "InvalidContext"
    ELSE "Unmapped"

PendingWriteIndex(reg) == (reg - PLIC_PENDING_OFFSET) \div 4

(* The ids the loop of the pending arm sets: reg_index * 32 + i for the set    *)
(* bits i of `val as u32`.                                                     *)
PendingWriteIds(reg_index, val) == {reg_index * 32 + i : i \in AsU32(val)}

(* A loop that overwrites the word instead of adding to it. *)
PendingWriteLoop_Overwrite(P, reg_index, val) ==
    (P \ {reg_index * 32 + i : i \in 0..31}) \cup PendingWriteIds(reg_index, val)

(* The bitmap after the loop, which sets the ids in the order of i and ends in *)
(* a panic at the first id outside the bitmap.                                 *)
PendingWriteLoop(P, reg_index, val) ==
    LET ids == PendingWriteIds(reg_index, val)
        bad == {k \in ids : ~IndexInBitmap(k)}
    IN
    IF bad = {} THEN P \cup ids
    ELSE P \cup {k \in ids : k < SetMin(bad)}

(* An injection that never asserts the signal. *)
SignalAfterInject_Never(P, v) == v

(* The signal after an injection: set_vseip when the bitmap is not empty. *)
SignalAfterInject(P, v) == IF BitmapIsEmpty(P) = FALSE THEN TRUE ELSE v

(* The pending arm, run under the pending lock. *)
Inject(P, v, reg, val) ==
    LET ids == PendingWriteIds(PendingWriteIndex(reg), val)
        P2 == PendingWriteLoop(P, PendingWriteIndex(reg), val)
    IN
    IF \E k \in ids : ~IndexInBitmap(k)
    THEN [pending |-> P2, vseip |-> v, res |-> "IndexOutOfBounds"]
    ELSE [pending |-> P2, vseip |-> SignalAfterInject(P2, v), res |-> "ok"]

(* A complete that deasserts the signal without looking at the pending bitmap. *)
SignalAfterComplete_Always(empty, v) == FALSE

(* The signal after a complete whose emptiness check gave `empty`. *)
SignalAfterComplete(empty, v) == IF empty THEN FALSE ELSE v

(* The index a complete clears: the written usize; <<>> when outside the bitmap. *)
CompleteIndex(val) ==
    IF val \subseteq 0..9 THEN <<NatOf(val)>> ELSE <<>>

(* A complete that sets the active bit instead of clearing it. *)
CompleteClearActive_Sets(A, irq_id) == BitmapSet(A, irq_id, TRUE)

(* A complete that leaves the id active. *)
CompleteClearActive_Skipped(A, irq_id) == A

(* The active bitmap after the complete's clearing of irq_id. *)
CompleteClearActive(A, irq_id) == BitmapSet(A, irq_id, FALSE)

(* ------------------------------------------------------------------ *)
(* The accesses the model makes                                       *)
(* ------------------------------------------------------------------ *)
PendingReg(w) == PLIC_PENDING_OFFSET + 4 * w
EnableReg(c) == PLIC_ENABLE_OFFSET + c * PLIC_ENABLE_STRIDE
ThresholdReg(c) ==
    PLIC_CONTEXT_CTRL_OFFSET + c * PLIC_CONTEXT_STRIDE + PLIC_CONTEXT_THRESHOLD_OFFSET
ClaimCompleteReg(c) ==
    PLIC_CONTEXT_CTRL_OFFSET + c * PLIC_CONTEXT_STRIDE + PLIC_CONTEXT_CLAIM_COMPLETE_OFFSET

LastWord == PLIC_NUM_SOURCES \div 32 - 1

(* The source ids the model injects: 0..MaxBit and the last id, 1023. *)
Ids == (0..MaxBit) \cup {LastWord * 32 + 31}

(* Offsets: one priority register and two offsets of the forwarded ranges that *)
(* are no multiple of 4; the first and the last pending word and the           *)
(* first word past source 1023; for context 0 and for context contexts_num     *)
(* (the first invalid one) the enable, threshold and claim/complete registers; *)
(* and two offsets of no region.                                               *)
Regs(d) ==
    {r \in {PLIC_PRIORITY_OFFSET + 4, PLIC_PRIORITY_OFFSET + 1, EnableReg(0) + 2}
           \cup {PendingReg(0), PendingReg(LastWord), PendingReg(LastWord + 1)}
           \cup {EnableReg(c) : c \in {0, d.contexts_num}}
           \cup {ThresholdReg(c) : c \in {0, d.contexts_num}}
           \cup {ClaimCompleteReg(c) : c \in {0, d.contexts_num}}
           \cup {PLIC_CONTEXT_CTRL_OFFSET + 1, PLIC_CONTEXT_CTRL_OFFSET + 8}
     : r < d.size}

IsPendingReg(reg) == reg >= PLIC_PENDING_OFFSET /\ reg < PLIC_ENABLE_OFFSET
IsClaimCompleteReg(reg) == ClaimCompleteGuard(reg, FALSE) = "yes"
IsPassthroughReg(reg) ==
    \/ reg < PLIC_PENDING_OFFSET
    \/ reg >= PLIC_ENABLE_OFFSET /\ reg < PLIC_CONTEXT_CTRL_OFFSET
    \/ IsThreshold(reg)

(* The values written.  To the first pending word every mask over bits         *)
(* 0..MaxBit and a value with a bit above the low 32; to the last pending word *)
(* and the one past it, nothing or the top bit; to the claim/complete register *)
(* of context 0 the ids, the first index past the bitmap and a value above     *)
(* 2^32; to the other registers one value.                                     *)
WriteVals(reg) ==
    IF reg = PendingReg(0) THEN (SUBSET (0..MaxBit)) \cup {{1, 33}}
    ELSE IF IsPendingReg(reg) THEN {{}, {31}}
    ELSE IF reg = ClaimCompleteReg(0)
        THEN {BitsOf(n) : n \in Ids \cup {PLIC_NUM_SOURCES}} \cup {{0, 32}}
    ELSE {BitsOf(1)}

(* The value the host register holds when a read is forwarded. *)
HostVals(reg) == IF IsPassthroughReg(reg) THEN {{}, {0, 1, 2}} ELSE {{}}

(* Other widths are tried on a pending word and on a claim/complete register. *)
NarrowRegs == {PendingReg(0), ClaimCompleteReg(0)}

(* Whether the build has debug checks matters at the offsets that are no       *)
(* multiple of 4: the misaligned host access of a forwarded range, and the     *)
(* underflow of the claim/complete guard at 0x200001..0x200003.                *)
BuildChecks(reg) == IF reg % Dword # 0 THEN BOOLEAN ELSE {FALSE}

ReadInputs(d) ==
    {[reg |-> r, width |-> Dword, hv |-> h, oc |-> c] :
        r \in Regs(d), h \in {{}, {0, 1, 2}}, c \in BOOLEAN}

ReadCalls(d) ==
    {i \in ReadInputs(d) : i.hv \in HostVals(i.reg) /\ i.oc \in BuildChecks(i.reg)}
    \cup {[reg |-> r, width |-> w, hv |-> {}, oc |-> FALSE] :
            r \in NarrowRegs, w \in AccessWidth \ {Dword}}

WriteCalls(d) ==
    UNION {{[reg |-> r, width |-> Dword, val |-> v, oc |-> c] :
              v \in WriteVals(r), c \in BuildChecks(r)} : r \in Regs(d)}
    \cup {[reg |-> r, width |-> w, val |-> BitsOf(1), oc |-> FALSE] :
            r \in NarrowRegs, w \in AccessWidth \ {Dword}}

(* ------------------------------------------------------------------ *)
(* The constructed device                                             *)
(* ------------------------------------------------------------------ *)
NoCall == [op |-> "none", reg |-> 0, width |-> Dword, val |-> {}, hv |-> {}, oc |-> FALSE]
NoFrame == [call |-> NoCall, irq_id |-> 0, empty |-> FALSE]

(* The device as new builds it, with nobody inside a handler. *)
InitDevice ==
    /\ NewAccepts(GuestBase, RegionSize, ContextsNum)
    /\ dev = New(GuestBase, RegionSize, ContextsNum)
    /\ assigned_irqs = BitmapNew
    /\ pending_irqs = BitmapNew
    /\ active_irqs = BitmapNew
    /\ vseip = FALSE
    /\ last = [op |-> "none", assigned |-> BitmapNew, pending |-> BitmapNew,
               active |-> BitmapNew, vseip |-> FALSE]
    /\ pending_lock = 0
    /\ active_lock = 0
    /\ pc = [p \in Procs |-> "idle"]
    /\ frame = [p \in Procs |-> NoFrame]
    /\ rets = [p \in Procs |-> <<>>]

(* ------------------------------------------------------------------ *)
(* Handlers run by callers, step by step                              *)
(* ------------------------------------------------------------------ *)
(* A caller takes its next call from its script and runs the handler in steps  *)
(* that end where the code takes or releases a lock: between two steps the     *)
(* other callers may run.  A panic (a failed assertion, unimplemented!, an     *)
(* index outside a bitmap) ends the call of the caller it happens to, with its *)
(* guards dropped; a host that aborts on a panic simply takes no further step. *)
ReadCall(reg) ==
    [op |-> "read", reg |-> reg, width |-> Dword, val |-> {}, hv |-> {}, oc |-> FALSE]
WriteCall(reg, val) ==
    [op |-> "write", reg |-> reg, width |-> Dword, val |-> val, hv |-> {}, oc |-> FALSE]
(* The caller waits until every other caller has finished its script. *)
JoinCall == [NoCall EXCEPT !.op = "join"]

(* inject(n), claim and complete(n) as the accesses they are. *)
InjectCall(n) == WriteCall(PendingReg(n \div 32), {n % 32})
ClaimCall == ReadCall(ClaimCompleteReg(0))
CompleteCall(n) == WriteCall(ClaimCompleteReg(0), BitsOf(n))

(* The process runs: no call has died in the abort of a misaligned host        *)
(* access, which stops every caller where it stands.                           *)
Running == \A p \in Procs : \A k \in 1..Len(rets[p]) : rets[p][k].res # "Misaligned"

Goto(p, label) == pc' = [pc EXCEPT ![p] = label]

(* The call of caller p ends. *)
Return(p, res, ret, hw) ==
    /\ rets' = [rets EXCEPT ![p] = Append(@, [call |-> frame[p].call, res |-> res,
                                              ret |-> ret, hw |-> hw])]
    /\ pc' = [pc EXCEPT ![p] = "idle"]
    /\ frame' = [frame EXCEPT ![p] = NoFrame]

(* Entry of handle_read / handle_write: the width assertion and the match.     *)
(* The passthrough arms and the panics end the call here; the other arms go    *)
(* on to take the pending lock.                                                *)
Start(p) ==
    /\ pc[p] = "idle"
    /\ Running
    /\ script[p] # <<>>
    /\ Head(script[p]).op \in {"read", "write"}
    /\ script' = [script EXCEPT ![p] = Tail(@)]
    /\ LET c == Head(script[p])
           host_addr == c.reg + dev.host_plic_addr
           arm == IF c.op = "read" THEN ReadArm(dev, c.reg, c.width, c.oc)
                  ELSE WriteArm(dev, c.reg, c.width, c.oc)
       IN
       IF arm \in {"pending", "claim", "complete"}
       THEN /\ frame' = [frame EXCEPT ![p] = [NoFrame EXCEPT !.call = c]]
            /\ Goto(p, IF arm = "claim" THEN "claim_lock"
                       ELSE IF arm = "complete" THEN "complete_lock"
                       ELSE IF c.op = "write" THEN "inject_lock" ELSE "pending_read_lock")
            /\ UNCHANGED rets
       ELSE LET o == IF arm \notin {"priority", "enable", "threshold"}
                          THEN [res |-> arm, ret |-> {}, hw |-> <<>>]
                     ELSE IF c.op = "read"
                          THEN HostRead(host_addr, c.width, c.hv, c.oc)
                     ELSE HostWrite(host_addr, c.width, c.val, c.oc)
            IN
            /\ frame' = frame
            /\ pc' = pc
            /\ rets' = [rets EXCEPT ![p] = Append(@,
                  [call |-> c, res |-> o.res, ret |-> o.ret, hw |-> o.hw])]
    /\ UNCHANGED <<device, last, pending_lock, active_lock>>

(* The caller's script says to wait for the others. *)
Join(p) ==
    /\ pc[p] = "idle"
    /\ Running
    /\ script[p] # <<>>
    /\ Head(script[p]).op = "join"
    /\ \A q \in Procs \ {p} : pc[q] = "idle" /\ script[q] = <<>>
    /\ script' = [script EXCEPT ![p] = Tail(@)]
    /\ UNCHANGED <<device, last, pending_lock, active_lock, pc, frame, rets>>

(* claim: `let mut pending_irqs = self.pending_irqs.lock();` *)
ClaimLock(p) ==
    /\ pc[p] = "claim_lock"
    /\ Running
    /\ pending_lock = 0
    /\ pending_lock' = p
    /\ Goto(p, "claim_take")
    /\ UNCHANGED <<device, last, active_lock, frame, script, rets>>

(* A claim that drops the pending guard as soon as the bit is cleared. *)
ClaimTake_ReleasesEarly(p) ==
    /\ pc[p] = "claim_take"
    /\ Running
    /\ LET fi == first_index(pending_irqs) IN
       IF fi = <<>>
       THEN /\ Return(p, "ok", BitsOf(0), <<>>)
            /\ UNCHANGED pending_irqs
       ELSE /\ pending_irqs' = ClaimClearPending(pending_irqs, fi[1])
            /\ frame' = [frame EXCEPT ![p].irq_id = fi[1]]
            /\ Goto(p, "claim_active_lock")
            /\ UNCHANGED rets
    /\ pending_lock' = 0
    /\ UNCHANGED <<dev, assigned_irqs, active_irqs, vseip, last, active_lock, script>>

(* claim: first_index; none returns 0, some id is cleared from pending. *)
ClaimTake(p) ==
    /\ pc[p] = "claim_take"
    /\ Running
    /\ LET fi == first_index(pending_irqs) IN
       IF fi = <<>>
       THEN /\ pending_lock' = 0
            /\ Return(p, "ok", BitsOf(0), <<>>)
            /\ UNCHANGED pending_irqs
       ELSE /\ pending_irqs' = ClaimClearPending(pending_irqs, fi[1])
            /\ frame' = [frame EXCEPT ![p].irq_id = fi[1]]
            /\ Goto(p, "claim_active_lock")
            /\ UNCHANGED <<pending_lock, rets>>
    /\ UNCHANGED <<dev, assigned_irqs, active_irqs, vseip, last, active_lock, script>>

(* claim: `self.active_irqs.lock()`, still holding the pending lock. *)
ClaimActiveLock(p) ==
    /\ pc[p] = "claim_active_lock"
    /\ Running
    /\ active_lock = 0
    /\ active_lock' = p
    /\ Goto(p, "claim_set")
    /\ UNCHANGED <<device, last, pending_lock, frame, script, rets>>

(* claim: `.set(irq_id, true)`; the temporary active guard is dropped at the   *)
(* end of the statement, the pending guard is still held.                      *)
ClaimSet(p) ==
    /\ pc[p] = "claim_set"
    /\ Running
    /\ active_irqs' = ClaimSetActive(active_irqs, frame[p].irq_id)
    /\ active_lock' = 0
    /\ Goto(p, "claim_return")
    /\ UNCHANGED <<dev, assigned_irqs, pending_irqs, vseip, last, pending_lock,
                   frame, script, rets>>

(* claim: `Ok(irq_id)`; the pending guard is dropped at the return. *)
ClaimReturn(p) ==
    /\ pc[p] = "claim_return"
    /\ Running
    /\ pending_lock' = 0
    /\ Return(p, "ok", BitsOf(frame[p].irq_id), <<>>)
    /\ UNCHANGED <<device, last, active_lock, script>>

(* inject: `let mut pending_irqs = self.pending_irqs.lock();` *)
InjectLock(p) ==
    /\ pc[p] = "inject_lock"
    /\ Running
    /\ pending_lock = 0
    /\ pending_lock' = p
    /\ Goto(p, "inject_body")
    /\ UNCHANGED <<device, last, active_lock, frame, script, rets>>

(* inject: the loop and set_vseip, under the pending lock. *)
InjectBody(p) ==
    /\ pc[p] = "inject_body"
    /\ Running
    /\ LET i == Inject(pending_irqs, vseip, frame[p].call.reg, frame[p].call.val) IN
       /\ pending_irqs' = i.pending
       /\ vseip' = i.vseip
       /\ Return(p, i.res, {}, <<>>)
    /\ pending_lock' = 0
    /\ UNCHANGED <<dev, assigned_irqs, active_irqs, last, active_lock, script>>

(* complete: `self.pending_irqs.lock()` in the condition of the if. *)
CompleteLock(p) ==
    /\ pc[p] = "complete_lock"
    /\ Running
    /\ pending_lock = 0
    /\ pending_lock' = p
    /\ Goto(p, "complete_check")
    /\ UNCHANGED <<device, last, active_lock, frame, script, rets>>

(* A complete that keeps the pending guard after the condition. *)
CompleteCheck_KeepsGuard(p) ==
    /\ pc[p] = "complete_check"
    /\ Running
    /\ frame' = [frame EXCEPT ![p].empty = BitmapIsEmpty(pending_irqs)]
    /\ Goto(p, "complete_signal")
    /\ UNCHANGED <<device, last, pending_lock, active_lock, script, rets>>

(* complete: `.is_empty()`; the guard is dropped when the condition is done. *)
CompleteCheck(p) ==
    /\ pc[p] = "complete_check"
    /\ Running
    /\ frame' = [frame EXCEPT ![p].empty = BitmapIsEmpty(pending_irqs)]
    /\ pending_lock' = 0
    /\ Goto(p, "complete_signal")
    /\ UNCHANGED <<device, last, active_lock, script, rets>>

(* A complete that looks at the bitmap again when it clears the signal. *)
CompleteSignal_Rechecks(p) ==
    /\ pc[p] = "complete_signal"
    /\ Running
    /\ vseip' = SignalAfterComplete(BitmapIsEmpty(pending_irqs), vseip)
    /\ Goto(p, "complete_active_lock")
    /\ UNCHANGED <<dev, assigned_irqs, pending_irqs, active_irqs, last,
                   pending_lock, active_lock, frame, script, rets>>

(* complete: clear_vseip if the bitmap was empty, holding no lock. *)
CompleteSignal(p) ==
    /\ pc[p] = "complete_signal"
    /\ Running
    /\ vseip' = SignalAfterComplete(frame[p].empty, vseip)
    /\ Goto(p, "complete_active_lock")
    /\ UNCHANGED <<dev, assigned_irqs, pending_irqs, active_irqs, last,
                   pending_lock, active_lock, frame, script, rets>>

(* complete: `self.active_irqs.lock()` *)
CompleteActiveLock(p) ==
    /\ pc[p] = "complete_active_lock"
    /\ Running
    /\ active_lock = 0
    /\ active_lock' = p
    /\ Goto(p, "complete_clear")
    /\ UNCHANGED <<device, last, pending_lock, frame, script, rets>>

(* complete: `.set(irq_id, false)`; the temporary active guard is dropped at   *)
(* the end of the statement, or by the panic of an index outside the bitmap.   *)
CompleteClear(p) ==
    /\ pc[p] = "complete_clear"
    /\ Running
    /\ LET ix == CompleteIndex(frame[p].call.val) IN
       IF ix = <<>>
       THEN /\ Return(p, "IndexOutOfBounds", {}, <<>>)
            /\ UNCHANGED active_irqs
       ELSE /\ active_irqs' = CompleteClearActive(active_irqs, ix[1])
            /\ Goto(p, "complete_host")
            /\ UNCHANGED <<frame, rets>>
    /\ active_lock' = 0
    /\ UNCHANGED <<dev, assigned_irqs, pending_irqs, vseip, last, pending_lock, script>>

(* complete: the write of the id to the host PLIC, holding no lock, and the    *)
(* return.                                                                     *)
CompleteHost(p) ==
    /\ pc[p] = "complete_host"
    /\ Running
    /\ LET c == frame[p].call
           o == HostWrite(c.reg + dev.host_plic_addr, c.width, c.val, c.oc)
       IN  Return(p, o.res, o.ret, o.hw)
    /\ UNCHANGED <<device, last, pending_lock, active_lock, script>>

(* pending read: `let pending_irqs = self.pending_irqs.lock();` *)
PendingReadLock(p) ==
    /\ pc[p] = "pending_read_lock"
    /\ Running
    /\ pending_lock = 0
    /\ pending_lock' = p
    /\ Goto(p, "pending_read_body")
    /\ UNCHANGED <<device, last, active_lock, frame, script, rets>>

(* pending read: the loop over the 32 bits of the word, under the pending lock. *)
PendingReadBody(p) ==
    /\ pc[p] = "pending_read_body"
    /\ Running
    /\ LET w == PendingReadWord(pending_irqs, frame[p].call.reg) IN
       IF w = <<>>
       THEN Return(p, "IndexOutOfBounds", {}, <<>>)
       ELSE Return(p, "ok", w[1], <<>>)
    /\ pending_lock' = 0
    /\ UNCHANGED <<device, last, active_lock, script>>

(* A step of caller p inside a handler. *)
Step(p) ==
    \/ ClaimLock(p)
    \/ ClaimTake(p)
    \/ ClaimActiveLock(p)
    \/ ClaimSet(p)
    \/ ClaimReturn(p)
    \/ InjectLock(p)
    \/ InjectBody(p)
    \/ CompleteLock(p)
    \/ CompleteCheck(p)
    \/ CompleteSignal(p)
    \/ CompleteActiveLock(p)
    \/ CompleteClear(p)
    \/ CompleteHost(p)
    \/ PendingReadLock(p)
    \/ PendingReadBody(p)

(* ------------------------------------------------------------------ *)
(* Handlers run one at a time                                         *)
(* ------------------------------------------------------------------ *)
(* One caller makes any call of the model's inputs, runs it to its return and  *)
(* makes the next.  last keeps the device state the latest call was made in,   *)
(* rets what that call returned.                                               *)
SeqCalls(d) ==
    {[op |-> "read", reg |-> c.reg, width |-> c.width, val |-> {},
      hv |-> c.hv, oc |-> c.oc] : c \in ReadCalls(d)}
    \cup {[op |-> "write", reg |-> c.reg, width |-> c.width, val |-> c.val,
           hv |-> {}, oc |-> c.oc] : c \in WriteCalls(d)}

Call(p) ==
    /\ pc[p] = "idle"
    /\ Running
    /\ script[p] = <<>>
    /\ \E c \in SeqCalls(dev) : script' = [script EXCEPT ![p] = <<c>>]
    /\ rets' = [rets EXCEPT ![p] = <<>>]
    /\ last' = [op |-> "call", assigned |-> assigned_irqs, pending |-> pending_irqs,
                active |-> active_irqs, vseip |-> vseip]
    /\ UNCHANGED <<device, pending_lock, active_lock, pc, frame>>

Init ==
    /\ InitDevice
    /\ script = [p \in Procs |-> <<>>]

Next == Call(1) \/ Start(1) \/ Step(1)

Spec == Init /\ [][Next]_vars

(* ------------------------------------------------------------------ *)
(* Two test runs: concurrent injection, and the repeated cycle        *)
(* ------------------------------------------------------------------ *)
(* Run "inject2": caller 1 injects a while caller 2 injects b; when both are   *)
(* done caller 1 claims twice.  Run "cycle": caller 1 alone does               *)
(* inject(a); claim; complete(a); inject(a); claim.                            *)
RunIds == Ids \ {0}

Inject2Script(a, b) ==
    [p \in Procs |-> IF p = 1 THEN <<InjectCall(a), JoinCall, ClaimCall, ClaimCall>>
                     ELSE IF p = 2 THEN <<InjectCall(b)>>
                     ELSE <<>>]

CycleScript(a) ==
    [p \in Procs |-> IF p = 1 THEN <<InjectCall(a), ClaimCall, CompleteCall(a),
                                     InjectCall(a), ClaimCall>>
                     ELSE <<>>]

InitRuns ==
    /\ InitDevice
    /\ \E a \in RunIds, b \in RunIds :
          script = IF a = b THEN CycleScript(a) ELSE Inject2Script(a, b)

NextRuns ==
    \E p \in Procs :
        \/ Start(p)
        \/ Join(p)
        \/ ClaimLock(p)
        \/ ClaimTake(p)
        \/ ClaimActiveLock(p)
        \/ ClaimSet(p)
        \/ ClaimReturn(p)
        \/ InjectLock(p)
        \/ InjectBody(p)
        \/ CompleteLock(p)
        \/ CompleteCheck(p)
        \/ CompleteSignal(p)
        \/ CompleteActiveLock(p)
        \/ CompleteClear(p)
        \/ CompleteHost(p)

SpecRuns == InitRuns /\ [][NextRuns]_vars

(* ------------------------------------------------------------------ *)
(* What a call was, read off its record                               *)
(* ------------------------------------------------------------------ *)
(* With handlers run one at a time: the caller's call has returned and it has  *)
(* not made the next one; the device is in the state the call left, last holds *)
(* the state the call was made in.                                             *)
Returned == pc[1] = "idle" /\ script[1] = <<>> /\ rets[1] # <<>>

(* The call that has returned: its arguments, its result and its host access. *)
Done ==
    IF Returned
    THEN LET r == rets[1][Len(rets[1])] IN
         [op |-> r.call.op, reg |-> r.call.reg, width |-> r.call.width,
          val |-> r.call.val, res |-> r.res, ret |-> r.ret, hw |-> r.hw]
    ELSE [op |-> "none", reg |-> 0, width |-> Dword, val |-> {}, res |-> "none",
          ret |-> {}, hw |-> <<>>]

(* The call has left the bitmaps and the signal as they were. *)
StateUnchanged ==
    /\ pending_irqs = last.pending
    /\ active_irqs = last.active
    /\ assigned_irqs = last.assigned
    /\ vseip = last.vseip

(* A 4-byte read of the claim/complete register of a valid context. *)
ClaimRead(l) ==
    /\ l.op = "read"
    /\ l.width = Dword
    /\ \E c \in 0..(dev.contexts_num - 1) : l.reg = ClaimCompleteReg(c)

(* A 4-byte write to the claim/complete register of a valid context. *)
CompleteWrite(l) ==
    /\ l.op = "write"
    /\ l.width = Dword
    /\ \E c \in 0..(dev.contexts_num - 1) : l.reg = ClaimCompleteReg(c)

(* A 4-byte access to the claim/complete offset of a context >= contexts_num. *)
BadContextAccess(l) ==
    /\ l.op \in {"read", "write"}
    /\ l.width = Dword
    /\ \E c \in dev.contexts_num..(dev.contexts_num + 2) : l.reg = ClaimCompleteReg(c)

(* The ids n in 1..1023 a 4-byte write injects: those whose word n/32 is the   *)
(* one written and whose bit n%32 is set in the 32-bit value.                  *)
InjectedIds(l) ==
    IF l.op = "write" /\ l.width = Dword
    THEN {n \in 1..(PLIC_NUM_SOURCES - 1) :
             /\ l.reg = PendingReg(n \div 32)
             /\ (n % 32) \in l.val}
    ELSE {}

(* ------------------------------------------------------------------ *)
(* C1                                                                 *)
(* ------------------------------------------------------------------ *)
(* C1: a 4-byte read of the claim/complete register of a valid context returns *)
(* the smallest id in Pending, and returns 0 if and only if Pending is empty.  *)
C1_ClaimReturnsLowestZeroIffEmpty ==
    (ClaimRead(Done) /\ Done.res = "ok") =>
       /\ last.pending # {} => NatOf(Done.ret) = SetMin(last.pending)
       /\ (NatOf(Done.ret) = 0) <=> (last.pending = {})

(* ------------------------------------------------------------------ *)
(* C2                                                                 *)
(* ------------------------------------------------------------------ *)
(* C2: when a claim returns an id x # 0, afterwards Pending does not contain   *)
(* x, Active contains x, and no other id changed its Pending or Active         *)
(* membership.                                                                 *)
C2_ClaimMovesPendingToActive ==
    (ClaimRead(Done) /\ Done.res = "ok" /\ NatOf(Done.ret) # 0) =>
       LET x == NatOf(Done.ret) IN
       /\ x \in last.pending
       /\ x \notin pending_irqs
       /\ x \in active_irqs
       /\ \A n \in (last.pending \cup pending_irqs \cup last.active \cup active_irqs) \ {x} :
             /\ (n \in pending_irqs) <=> (n \in last.pending)
             /\ (n \in active_irqs) <=> (n \in last.active)

(* A claim has returned id 2 while id 1 stays active and id 1023 pending. *)
C2_Witness ==
    /\ ClaimRead(Done)
    /\ Done.res = "ok"
    /\ NatOf(Done.ret) = 2
    /\ 2 \in active_irqs
    /\ 1 \in active_irqs
    /\ (LastWord * 32 + 31) \in pending_irqs

(* ------------------------------------------------------------------ *)
(* C3                                                                 *)
(* ------------------------------------------------------------------ *)
(* C3: after inject(n), from any reachable state, Pending contains n, Active   *)
(* does not contain n and the guest interrupt-pending signal is asserted.      *)
C3_InjectPendingNotActive ==
    \A n \in InjectedIds(Done) :
       Done.res = "ok" =>
          /\ n \in pending_irqs
          /\ n \notin active_irqs
          /\ vseip

(* ------------------------------------------------------------------ *)
(* C4                                                                 *)
(* ------------------------------------------------------------------ *)
(* C4: a complete(x) removes x from Active; afterwards the signal is           *)
(* deasserted if Pending is empty, and still asserted if Pending is not empty  *)
(* and the signal was asserted before.                                         *)
C4_CompleteClearsActiveAndSignal ==
    CompleteWrite(Done) =>
       /\ Done.res = "ok" => \A n \in active_irqs : BitsOf(n) # Done.val
       /\ pending_irqs = {} => ~vseip
       /\ (pending_irqs # {} /\ last.vseip) => vseip
       /\ pending_irqs = last.pending

(* A complete of an id has returned while another id is pending: the id is no  *)
(* longer active and the signal is still asserted.                             *)
C4_Witness ==
    /\ CompleteWrite(Done)
    /\ Done.res = "ok"
    /\ Done.val = BitsOf(1)
    /\ Done.hw # <<>>
    /\ last.active = {1}
    /\ active_irqs = {}
    /\ pending_irqs = {2}
    /\ vseip

(* ------------------------------------------------------------------ *)
(* C5                                                                 *)
(* ------------------------------------------------------------------ *)
(* C5: no source id (1..1023) is a member of both Pending and Active. *)
C5_PendingActiveDisjoint ==
    \A n \in 1..(PLIC_NUM_SOURCES - 1) : ~(n \in pending_irqs /\ n \in active_irqs)

(* ------------------------------------------------------------------ *)
(* C6                                                                 *)
(* ------------------------------------------------------------------ *)
(* C6: source id 0 is in none of Assigned, Pending and Active. *)
C6_IdZeroInNoSet == 0 \notin (assigned_irqs \cup pending_irqs \cup active_irqs)

(* ------------------------------------------------------------------ *)
(* C7                                                                 *)
(* ------------------------------------------------------------------ *)
(* The id a run's inject call names. *)
IdOfInject(c) == CHOOSE n \in RunIds : InjectCall(n) = c

(* The "inject2" run is the one in which caller 2 makes a call. *)
Inject2Done == Len(rets[1]) >= 1 /\ Len(rets[2]) = 1

(* The "cycle" run is the one in which caller 2 has nothing to do. *)
CycleRun == script[2] = <<>> /\ rets[2] = <<>>

(* C7: after inject(a) and inject(b), a # b, run concurrently by two callers,  *)
(* two claims made one after the other return exactly a and b: neither returns *)
(* 0, no id is returned twice and none is lost.                                *)
C7_ConcurrentInjectsBothClaimed ==
    Inject2Done =>
        LET a == IdOfInject(rets[1][1].call)
            b == IdOfInject(rets[2][1].call)
        IN
        /\ \A k \in 1..Len(rets[1]) : rets[1][k].res = "ok"
        /\ rets[2][1].res = "ok"
        /\ \A k \in 2..Len(rets[1]) : NatOf(rets[1][k].ret) \in {a, b}
        /\ Len(rets[1]) = 3 =>
              {NatOf(rets[1][2].ret), NatOf(rets[1][3].ret)} = {a, b}

(* Both claims have returned after injections into the same word, the id of    *)
(* caller 2 first.                                                             *)
C7_Witness ==
    /\ Len(rets[1]) = 3
    /\ Len(rets[2]) = 1
    /\ rets[1][1].call = InjectCall(2)
    /\ rets[2][1].call = InjectCall(1)
    /\ rets[1][2].call = ClaimCall
    /\ rets[1][2].ret = BitsOf(1)
    /\ rets[1][3].ret = BitsOf(2)

(* ------------------------------------------------------------------ *)
(* C8                                                                 *)
(* ------------------------------------------------------------------ *)
(* C8: from Pending and Active empty, inject(n); claim; complete(n) has the    *)
(* claim return n and ends with n in neither set and the signal deasserted,    *)
(* and a second inject(n) followed by a claim returns n again.                 *)
C8_CycleRepeats ==
    (CycleRun /\ Len(rets[1]) >= 1) =>
        LET n == IdOfInject(rets[1][1].call) IN
        /\ \A k \in 1..Len(rets[1]) : rets[1][k].res = "ok"
        /\ Len(rets[1]) >= 2 => rets[1][2].ret = BitsOf(n)
        /\ (Len(rets[1]) = 3 /\ pc[1] = "idle") =>
              /\ pending_irqs = {}
              /\ active_irqs = {}
              /\ ~vseip
        /\ Len(rets[1]) = 5 =>
              /\ rets[1][5].ret = BitsOf(n)
              /\ pending_irqs = {}
              /\ active_irqs = {n}

(* The second claim of the cycle has returned id 1023. *)
C8_Witness ==
    /\ CycleRun
    /\ Len(rets[1]) = 5
    /\ rets[1][3].call = CompleteCall(LastWord * 32 + 31)
    /\ rets[1][5].call = ClaimCall
    /\ rets[1][5].ret = BitsOf(LastWord * 32 + 31)

(* ------------------------------------------------------------------ *)
(* C9                                                                 *)
(* ------------------------------------------------------------------ *)
(* C9: a read or write of a width other than 4 bytes ends as InvalidWidth with *)
(* Pending, Active, Assigned and the signal unchanged and no host access.      *)
C9_WrongWidthRejected ==
    (Done.op \in {"read", "write"} /\ Done.width # Dword) =>
       /\ Done.res = "InvalidWidth"
       /\ Done.hw = <<>>
       /\ StateUnchanged

(* A 2-byte write to the claim/complete register was rejected while an id was  *)
(* active and another pending.                                                 *)
C9_Witness ==
    /\ Done.op = "write"
    /\ Done.width = Word
    /\ Done.reg = ClaimCompleteReg(0)
    /\ Done.val = BitsOf(1)
    /\ Done.res = "InvalidWidth"
    /\ 1 \in active_irqs
    /\ pending_irqs # {}
    /\ vseip

(* ------------------------------------------------------------------ *)
(* C10                                                                *)
(* ------------------------------------------------------------------ *)
(* C10: a 4-byte access at a claim/complete offset whose context id is         *)
(* >= contexts_num ends as InvalidContext with Pending, Active and the signal  *)
(* unchanged and no host access.                                               *)
C10_BadContextRejected ==
    BadContextAccess(Done) =>
       /\ Done.res = "InvalidContext"
       /\ Done.hw = <<>>
       /\ Done.ret = {}
       /\ StateUnchanged

(* A read at the claim/complete offset of context contexts_num, an offset      *)
(* inside the device, was rejected while an id was pending.                    *)
C10_Witness ==
    /\ Done.op = "read"
    /\ Done.width = Dword
    /\ Done.reg = ClaimCompleteReg(dev.contexts_num)
    /\ Done.reg < dev.size
    /\ Done.res = "InvalidContext"
    /\ pending_irqs = {1}
    /\ active_irqs = {}

(* ------------------------------------------------------------------ *)
(* C11                                                                *)
(* ------------------------------------------------------------------ *)
(* A 4-byte read of pending word w, w in 0..31. *)
PendingWordRead(l) ==
    /\ l.op = "read"
    /\ l.width = Dword
    /\ \E w \in 0..(PLIC_NUM_SOURCES \div 32 - 1) : l.reg = PendingReg(w)

(* C11: a 4-byte read at offset 0x1000 + 4*w, w in 0..31, returns successfully *)
(* the word whose bit i is set exactly when source w*32+i is in Pending, and   *)
(* changes no state.                                                           *)
C11_PendingReadReturnsWord ==
    PendingWordRead(Done) =>
       LET w == (Done.reg - PLIC_PENDING_OFFSET) \div 4 IN
       /\ Done.res = "ok"
       /\ Done.ret = {i \in 0..31 : (w * 32 + i) \in last.pending}
       /\ StateUnchanged

(* ------------------------------------------------------------------ *)
(* C12                                                                *)
(* ------------------------------------------------------------------ *)
(* A 4-byte access to the enable or threshold register of a context            *)
(* >= contexts_num.                                                            *)
BadContextPassthrough(l) ==
    /\ l.op \in {"read", "write"}
    /\ l.width = Dword
    /\ \E c \in dev.contexts_num..(dev.contexts_num + 2) :
          l.reg = EnableReg(c) \/ l.reg = ThresholdReg(c)

(* C12: a 4-byte access to an enable or threshold offset whose context id is   *)
(* >= contexts_num is rejected and never forwarded to the host controller.     *)
C12_BadContextPassthroughRejected ==
    BadContextPassthrough(Done) =>
       /\ Done.res # "ok"
       /\ Done.hw = <<>>

(* ------------------------------------------------------------------ *)
(* C16                                                                *)
(* ------------------------------------------------------------------ *)
(* C16: only a claim adds an id to Active and only a complete removes one;     *)
(* every other access leaves Active unchanged, and the passthrough accesses    *)
(* (priority, enable, threshold) also leave Pending and the signal unchanged.  *)
C16_ActiveChangesOnlyByProtocol ==
    Returned =>
       /\ (active_irqs \ last.active # {}) => ClaimRead(Done)
       /\ (last.active \ active_irqs # {}) => CompleteWrite(Done)
       /\ (~ClaimRead(Done) /\ ~CompleteWrite(Done)) => active_irqs = last.active
       /\ IsPassthroughReg(Done.reg) =>
             /\ StateUnchanged
             /\ Done.res = "ok" => Len(Done.hw) = 1
             /\ Done.res # "ok" => (Done.res = "Misaligned" /\ Done.hw = <<>>)

(* A threshold write was forwarded to the host while an id was active and      *)
(* another pending.                                                            *)
C16_Witness ==
    /\ Done.op = "write"
    /\ Done.reg = ThresholdReg(0)
    /\ Done.res = "ok"
    /\ Len(Done.hw) = 1
    /\ active_irqs = {1}
    /\ pending_irqs = {2}
    /\ vseip

(* ------------------------------------------------------------------ *)
(* C18                                                                *)
(* ------------------------------------------------------------------ *)
(* A 4-byte access at an offset of no region: past 0x200000 and neither at     *)
(* 0x0 nor at 0x4 of a context stride, or in the pending area past word 31.    *)
UnmappedAccess(l) ==
    /\ l.op \in {"read", "write"}
    /\ l.width = Dword
    /\ \/ /\ l.reg >= PLIC_CONTEXT_CTRL_OFFSET
          /\ ((l.reg - PLIC_CONTEXT_CTRL_OFFSET) % PLIC_CONTEXT_STRIDE)
                \notin {PLIC_CONTEXT_THRESHOLD_OFFSET, PLIC_CONTEXT_CLAIM_COMPLETE_OFFSET}
       \/ /\ l.reg >= PendingReg(PLIC_NUM_SOURCES \div 32)
          /\ l.reg < PLIC_ENABLE_OFFSET

(* C18: a 4-byte access at an offset of no region is rejected (the call ends   *)
(* in a fault) with Pending, Active, the signal and the host untouched.        *)
C18_UnmappedRejected ==
    UnmappedAccess(Done) =>
       /\ Done.res # "ok"
       /\ Done.hw = <<>>
       /\ StateUnchanged

(* ------------------------------------------------------------------ *)
(* C19                                                                *)
(* ------------------------------------------------------------------ *)
(* C19: with handlers run one at a time, whenever Pending is not empty the     *)
(* guest interrupt-pending signal is asserted.                                 *)
C19_PendingImpliesSignal == pending_irqs # {} => vseip

(* A complete has returned and left the signal asserted for the two ids that   *)
(* are still pending.                                                          *)
C19_Witness ==
    /\ CompleteWrite(Done)
    /\ Done.res = "ok"
    /\ Done.val = BitsOf(1)
    /\ pending_irqs = {2, LastWord * 32 + 31}
    /\ active_irqs = {}
    /\ vseip

(* ------------------------------------------------------------------ *)
(* VPlicGlobal::new on 64-bit usize                                   *)
(* ------------------------------------------------------------------ *)
(* A usize is the set of its set bits, a subset of 0..63.  The arithmetic of   *)
(* new is computed bit by bit, with the carry out of bit 63 as the overflow    *)
(* a build with overflow checks panics on and a build without them drops.      *)
UsizeBits == 64

(* The usize of a small natural. *)
U64Of(n) == {i \in 0..30 : (n \div Pow2(i)) % 2 = 1}

(* The carry into bit i of a + b: some lower bit generates one and every bit   *)
(* between propagates it.                                                      *)
U64Carry(a, b, i) ==
    \E j \in 0..(i - 1) :
       /\ j \in a /\ j \in b
       /\ \A k \in (j + 1)..(i - 1) : k \in a \/ k \in b

(* a + b modulo 2^64, and whether the sum left the 64 bits. *)
U64Add(a, b) ==
    [bits |-> {i \in 0..(UsizeBits - 1) :
                 ((i \in a) # (i \in b)) # U64Carry(a, b, i)},
     overflow |-> U64Carry(a, b, UsizeBits)]

(* a << k modulo 2^64, and whether a set bit left the 64 bits. *)
U64Shl(a, k) ==
    [bits |-> {i + k : i \in {j \in a : j + k < UsizeBits}},
     overflow |-> \E j \in a : j + k >= UsizeBits]

RECURSIVE U64MulFrom(_, _, _)
U64MulFrom(a, b, acc) ==
    IF b = {} THEN acc
    ELSE LET k == CHOOSE x \in b : TRUE
             sh == U64Shl(a, k)
             sum == U64Add(acc.bits, sh.bits)
         IN  U64MulFrom(a, b \ {k},
                        [bits |-> sum.bits,
                         overflow |-> acc.overflow \/ sh.overflow \/ sum.overflow])

(* a * b modulo 2^64, and whether the product left the 64 bits. *)
U64Mul(a, b) == U64MulFrom(a, b, [bits |-> {}, overflow |-> FALSE])

(* a > b *)
U64Gt(a, b) == \E i \in a \ b : \A j \in (i + 1)..(UsizeBits - 1) : (j \in a) <=> (j \in b)

(* addr_end, computed left to right as written. *)
AddrEnd64(addr, contexts_num) ==
    LET prod == U64Mul(contexts_num, U64Of(PLIC_CONTEXT_STRIDE))
        s1 == U64Add(addr, prod.bits)
        s2 == U64Add(s1.bits, U64Of(PLIC_CONTEXT_CTRL_OFFSET))
        s3 == U64Add(s2.bits, U64Of(PLIC_CONTEXT_CLAIM_COMPLETE_OFFSET))
    IN  [bits |-> s3.bits,
         overflow |-> prod.overflow \/ s1.overflow \/ s2.overflow \/ s3.overflow]

(* The outcome of new(addr, size, contexts_num): "created", or the panic that  *)
(* ends it.  size is <<>> for None and <<s>> for Some(s); oc is whether the    *)
(* build checks arithmetic overflow.                                           *)
NewOutcome(addr, size, contexts_num, oc) ==
    LET addr_end == AddrEnd64(addr, contexts_num) IN
    IF oc /\ addr_end.overflow THEN "Overflow"
    ELSE IF size = <<>> THEN "NoSize"
    ELSE LET region_end == U64Add(addr, size[1]) IN
         IF oc /\ region_end.overflow THEN "Overflow"
         ELSE IF U64Gt(region_end.bits, addr_end.bits) THEN "created"
         ELSE "AssertFailed"

(* The arguments new is tried on: bases at zero, at the usual place and at the *)
(* top of the address space; sizes on both sides of the bound of each context  *)
(* count; small context counts and ones whose stride product leaves 64 bits.   *)
HighBit == UsizeBits - 12

NewAddrs ==
    {U64Of(0), U64Of(GuestBase), 21..(UsizeBits - 1), 12..(UsizeBits - 1)}

NewSizes ==
    {<<>>, <<U64Of(0)>>, <<U64Of(RegionSize)>>}
    \cup {<<U64Of(c * PLIC_CONTEXT_STRIDE + PLIC_CONTEXT_CTRL_OFFSET
                   + PLIC_CONTEXT_CLAIM_COMPLETE_OFFSET + d)>> :
             c \in 0..ContextsNum, d \in {0, 1}}

NewContexts ==
    {U64Of(c) : c \in 0..ContextsNum} \cup {{HighBit} \cup U64Of(c) : c \in 0..ContextsNum}

NoDevice == [addr |-> {}, size |-> {}, contexts_num |-> {}, host_plic_addr |-> {}]

(* Before new runs: its arguments are chosen, nothing is constructed. *)
InitNew ==
    /\ \E addr \in NewAddrs, size \in NewSizes, contexts_num \in NewContexts,
          oc \in BOOLEAN :
          last = [op |-> "args", addr |-> addr, size |-> size,
                  contexts_num |-> contexts_num, oc |-> oc, res |-> "none"]
    /\ dev = NoDevice
    /\ assigned_irqs = {}
    /\ pending_irqs = {}
    /\ active_irqs = {}
    /\ vseip = FALSE
    /\ pending_lock = 0
    /\ active_lock = 0
    /\ pc = [p \in Procs |-> "idle"]
    /\ frame = [p \in Procs |-> NoFrame]
    /\ script = [p \in Procs |-> <<>>]
    /\ rets = [p \in Procs |-> <<>>]

(* new runs on the chosen arguments. *)
Construct ==
    /\ last.op = "args"
    /\ LET res == NewOutcome(last.addr, last.size, last.contexts_num, last.oc) IN
       /\ last' = [last EXCEPT !.op = "new", !.res = res]
       /\ dev' = IF res = "created"
                 THEN [addr |-> last.addr, size |-> last.size[1],
                       contexts_num |-> last.contexts_num,
                       host_plic_addr |-> last.addr]
                 ELSE dev
       /\ assigned_irqs' = BitmapNew
       /\ pending_irqs' = BitmapNew
       /\ active_irqs' = BitmapNew
    /\ UNCHANGED <<vseip, callers>>

NextNew == Construct

SpecNew == InitNew /\ [][NextNew]_vars

(* ------------------------------------------------------------------ *)
(* C17                                                                *)
(* ------------------------------------------------------------------ *)
(* size > contexts_num * 0x1000 + 0x200000 + 0x4 over the naturals: a product  *)
(* or sum that leaves 64 bits is larger than every size.                       *)
SizeCoversRange(size, contexts_num) ==
    LET range_end == AddrEnd64(U64Of(0), contexts_num) IN
    /\ ~range_end.overflow
    /\ U64Gt(size, range_end.bits)

(* The 4 bytes at offset reg lie inside [0, size). *)
RegInside(reg, size) == U64Gt(size, U64Of(reg + Dword - 1))

(* C17: new fails whenever size <= contexts_num * 0x1000 + 0x200000 + 0x4, and *)
(* for every device it creates and every context c < contexts_num the 4-byte   *)
(* threshold and claim/complete registers of c lie inside [0, size).           *)
C17_NewCoversEveryContext ==
    last.op = "new" =>
       /\ (last.size # <<>> /\ ~SizeCoversRange(last.size[1], last.contexts_num))
             => last.res # "created"
       /\ last.res = "created" =>
             \A c \in 0..ContextsNum :
                U64Gt(dev.contexts_num, U64Of(c)) =>
                   /\ RegInside(ThresholdReg(c), dev.size)
                   /\ RegInside(ClaimCompleteReg(c), dev.size)

(* ------------------------------------------------------------------ *)
(* Callers that call the handlers freely                              *)
(* ------------------------------------------------------------------ *)
(* Every caller, when idle, picks any call of ConcCalls and runs it step by    *)
(* step; rets keeps what the caller's latest call returned.                    *)
MaxConcId == 1

ConcIds == 1..MaxConcId

ConcCalls ==
    {InjectCall(n) : n \in ConcIds}
    \cup {CompleteCall(n) : n \in ConcIds}
    \cup {ClaimCall, ReadCall(PendingReg(0)), WriteCall(PendingReg(0), {}),
          [ReadCall(PLIC_PRIORITY_OFFSET + 1) EXCEPT !.oc = TRUE]}

Issue(p) ==
    /\ pc[p] = "idle"
    /\ Running
    /\ script[p] = <<>>
    /\ \E c \in ConcCalls : script' = [script EXCEPT ![p] = <<c>>]
    /\ rets' = [rets EXCEPT ![p] = <<>>]
    /\ UNCHANGED <<device, last, pending_lock, active_lock, pc, frame>>

InitConc ==
    /\ InitDevice
    /\ script = [p \in Procs |-> <<>>]

NextConc ==
    \E p \in Procs :
        \/ Issue(p)
        \/ Start(p)
        \/ Step(p)

SpecConc == InitConc /\ [][NextConc]_vars

(* ------------------------------------------------------------------ *)
(* C13                                                                *)
(* ------------------------------------------------------------------ *)
(* Caller p is in a complete, about to act on an emptiness check that an       *)
(* injection has made stale: it read Pending empty, released the lock, and     *)
(* Pending is not empty any more.                                              *)
StaleCheck(p) ==
    /\ pc[p] = "complete_signal"
    /\ Running
    /\ frame[p].empty
    /\ pending_irqs # {}

(* C13: the race between complete and inject is reachable: a complete that     *)
(* read Pending empty and released the pending lock deasserts the signal       *)
(* although a concurrent inject has since set a pending bit and asserted it,   *)
(* and leaves Pending non-empty with the signal deasserted.                    *)
C13_CompleteInjectRace ==
    [][\A p \in Procs :
          (StaleCheck(p) /\ vseip /\ pc'[p] = "complete_active_lock") =>
             /\ ~vseip'
             /\ pending_irqs' = pending_irqs
             /\ pending_irqs' # {}]_vars

(* Both handlers have returned: caller 1's complete(1) and caller 2's          *)
(* inject(1); id 1 is pending and the signal is deasserted.                    *)
C13_Witness ==
    /\ \A p \in Procs : pc[p] = "idle" /\ script[p] = <<>>
    /\ rets[1] = <<[call |-> CompleteCall(1), res |-> "ok", ret |-> {},
                    hw |-> HostWrite(ClaimCompleteReg(0) + dev.host_plic_addr,
                                     Dword, BitsOf(1), FALSE).hw]>>
    /\ rets[2] = <<[call |-> InjectCall(1), res |-> "ok", ret |-> {}, hw |-> <<>>]>>
    /\ pending_irqs = {1}
    /\ ~vseip

(* ------------------------------------------------------------------ *)
(* C14                                                                *)
(* ------------------------------------------------------------------ *)
(* Where a claim stands between clearing the pending bit and setting the       *)
(* active bit, and where a handler stands while it reads or writes Pending.    *)
ClaimWindow == {"claim_active_lock", "claim_set"}
UnderPendingLock ==
    {"claim_take", "claim_active_lock", "claim_set", "claim_return", "inject_body",
     "complete_check", "pending_read_body"}

(* C14: while a claim has removed x from Pending and not yet added it to       *)
(* Active it holds the pending lock: no other caller is inside an inject, a    *)
(* pending read, a claim or the emptiness check of a complete, x is not put    *)
(* back in Pending, and whenever the pending lock is free no claim is between  *)
(* its two updates.                                                            *)
C14_ClaimAtomic ==
    /\ \A p \in Procs :
          pc[p] \in ClaimWindow =>
             /\ pending_lock = p
             /\ frame[p].irq_id \notin pending_irqs
             /\ \A q \in Procs \ {p} : pc[q] \notin UnderPendingLock
    /\ pending_lock = 0 => \A p \in Procs : pc[p] \notin ClaimWindow

(* Caller 1's claim has cleared pending bit 1 and waits for the active lock,   *)
(* which caller 2's complete holds; id 1 is in neither bitmap.                 *)
C14_Witness ==
    /\ pc[1] = "claim_active_lock"
    /\ frame[1].irq_id = 1
    /\ pending_lock = 1
    /\ pc[2] = "complete_clear"
    /\ active_lock = 2
    /\ 1 \notin pending_irqs
    /\ 1 \notin active_irqs

(* ------------------------------------------------------------------ *)
(* C15                                                                *)
(* ------------------------------------------------------------------ *)
(* C15: a 4-byte write of v to pending word w, w in 0..31, makes Pending the   *)
(* union of what it was and {w*32+i : bit i of v set}, and a write of v = 0    *)
(* leaves Pending and the signal unchanged.                                    *)
C15_PendingWriteAdditive ==
    [][\A p \in Procs :
          (pc[p] = "inject_body" /\ pc'[p] = "idle"
             /\ frame[p].call.reg < PendingReg(PLIC_NUM_SOURCES \div 32)) =>
             LET w == (frame[p].call.reg - PLIC_PENDING_OFFSET) \div 4
                 v == AsU32(frame[p].call.val)
             IN  /\ rets'[p][Len(rets'[p])].res = "ok"
                 /\ pending_irqs' = pending_irqs \cup {w * 32 + i : i \in v}
                 /\ v = {} => vseip' = vseip]_vars

(* ------------------------------------------------------------------ *)
(* C20                                                                *)
(* ------------------------------------------------------------------ *)
(* Where a handler asks for the pending lock. *)
WantsPendingLock ==
    {"claim_lock", "inject_lock", "complete_lock", "pending_read_lock"}

(* C20: no interleaving of handler calls deadlocks: while the process runs and *)
(* some call is under way some caller can take a step, and a caller that       *)
(* waits for no lock can always take its own.  The only nested acquisition is  *)
(* a claim taking the active lock while it holds the pending lock; no caller   *)
(* asks for the pending lock while it holds the active lock, and a complete    *)
(* has released the pending lock before it asks for the active lock.           *)
C20_NoDeadlockLockOrder ==
    /\ (Running /\ \E p \in Procs : pc[p] # "idle") =>
          ENABLED (\E q \in Procs : Step(q))
    /\ \A p \in Procs :
          /\ (Running /\ pc[p] \notin (WantsPendingLock
                                         \cup {"idle", "claim_active_lock",
                                               "complete_active_lock"}))
                => ENABLED Step(p)
          /\ pc[p] \in WantsPendingLock => (pending_lock # p /\ active_lock # p)
          /\ pc[p] = "complete_active_lock" => (pending_lock # p /\ active_lock # p)
          /\ pc[p] = "claim_active_lock" => (pending_lock = p /\ active_lock # p)
          /\ active_lock = p => pc[p] \in {"claim_set", "complete_clear"}
          /\ (active_lock = p /\ pending_lock = p) => pc[p] = "claim_set"
          /\ pc[p] = "idle" => (pending_lock # p /\ active_lock # p)

(* Caller 1's claim holds both locks, taken in the order pending then active,  *)
(* while caller 2's complete, holding none, waits for the active lock.         *)
C20_Witness ==
    /\ pc[1] = "claim_set"
    /\ pending_lock = 1
    /\ active_lock = 1
    /\ pc[2] = "complete_active_lock"

====
